---- MODULE Spec2Model ----
(***************************************************************************)
(* Step-gated submission workflow of ist-publications-backend.             *)
(*                                                                         *)
(* The request handlers of submissions/views.py are modelled over the      *)
(* tables they read and write: the Submission row and the per-step         *)
(* sub-record tables SubmissionStep1..5.  Spec runs every handler as one   *)
(* atomic request; SpecConc splits a handler into the load of the          *)
(* Submission object (get_object_or_404) and the rest of the handler,      *)
(* which works on that loaded copy, so that two requests can interleave.   *)
(***************************************************************************)
EXTENDS Integers, Sequences, FiniteSets, TLC

VARIABLES
    submissions,   \* Submission table: submission_id -> row
    step1,         \* SubmissionStep1 table: submission_id -> row (one-to-one)
    step2,         \* SubmissionStep2 table: submission_id -> row (one-to-one)
    step3,         \* SubmissionStep3 rows per submission_id, in insertion order
    step4,         \* SubmissionStep4 rows per submission_id, in insertion order
    step5,         \* SubmissionStep5 table: submission_id -> row (one-to-one)
    response,      \* the Response returned by the last completed request
    inflight,      \* per worker: the request or job it is serving and what it holds in memory
    lost_update,   \* history: some save() has overwritten a later commit of another request
    succeeded,     \* history: per submission, the steps in the order of their first success
    templates,     \* EmailTemplate table
    email_log,     \* EmailLog table, in the order of creation
    transport,     \* history: per EmailLog row created by a send, the number of times email.send() ran for it
    email_result   \* what the last completed call into EmailService gave its caller

vars == <<submissions, step1, step2, step3, step4, step5, response, inflight, lost_update,
          succeeded, templates, email_log, transport, email_result>>

emailvars == <<templates, email_log, transport, email_result>>

tables == <<submissions, step1, step2, step3, step4, step5>>

(***************************************************************************)
(* Bounds of the model.                                                    *)
(***************************************************************************)
MaxSubmissions == 1     \* submissions created in one behaviour
MaxFiles == 2           \* SubmissionStep3 rows kept per submission
MaxReviewers == 3       \* SubmissionStep4 rows kept per submission
MaxEmails == 1          \* EmailLog rows created in one behaviour

(***************************************************************************)
(* Program constants.                                                      *)
(***************************************************************************)
HTTP_200_OK == 200
HTTP_201_CREATED == 201
HTTP_400_BAD_REQUEST == 400
HTTP_403_FORBIDDEN == 403
HTTP_404_NOT_FOUND == 404
HTTP_500_INTERNAL_SERVER_ERROR == 500

min_words == 150
max_words == 200
min_keywords == 2
max_keywords == 10
min_title == 5
max_title == 300
max_size == 10 * 1024 * 1024
max_reviewers == 2
min_reviewer_name == 3
max_reviewer_name == 255
max_department == 200
FINAL_STEP == 6

(***************************************************************************)
(* Table helpers.                                                          *)
(***************************************************************************)
Put(table, key, row) ==
    [k \in DOMAIN table \cup {key} |-> IF k = key THEN row ELSE table[k]]

\* Model.objects.get_or_create(submission=...): the row, created with the
\* model's defaults when there is none.
get_or_create(table, key, defaults) ==
    IF key \in DOMAIN table THEN table ELSE Put(table, key, defaults)

(***************************************************************************)
(* Rows.                                                                   *)
(***************************************************************************)
\* Submission.objects.create(submission_id=..., current_step=1, status='DRAFT'):
\* is_locked and submitted_at take the model's defaults.
NewSubmission ==
    [current_step |-> 1, status |-> "DRAFT", is_locked |-> FALSE, submitted_at |-> "null"]

Step1Fields == {"agrees_to_copyright", "agrees_to_privacy", "agrees_to_policies"}

\* SubmissionStep1.objects.create(submission=submission): "empty agreements".
EmptyStep1 == [f \in Step1Fields |-> FALSE]

Step5Fields == {"final_agrees_copyright", "final_agrees_privacy", "confirms_submission"}

EmptyStep5 == [f \in Step5Fields |-> FALSE]

EmptyStep2 ==
    [title |-> [chars |-> 0, tags |-> FALSE],
     abstract |-> [words |-> 0, tags |-> FALSE],
     keywords |-> <<>>,
     category |-> ""]

(***************************************************************************)
(* Request payloads.  A text is modelled by what the validators read of    *)
(* it: a title by its stripped length and whether it contains a tag, an    *)
(* abstract by its number of whitespace-separated words and whether it     *)
(* contains a tag, the keywords by the comma-separated entries (stripped,  *)
(* "" for an entry that strips to nothing).                                *)
(***************************************************************************)
Kw(n) == [i \in 1..n |-> "kw"]

GoodStep2 ==
    [title |-> [chars |-> min_title, tags |-> FALSE],
     abstract |-> [words |-> min_words, tags |-> FALSE],
     keywords |-> Kw(min_keywords),
     category |-> "ai"]

Step2Inputs ==
    { GoodStep2,
      [GoodStep2 EXCEPT !.abstract.words = max_words, !.keywords = Kw(max_keywords)],
      [GoodStep2 EXCEPT !.abstract.words = min_words - 1],
      [GoodStep2 EXCEPT !.abstract.words = max_words + 1],
      [GoodStep2 EXCEPT !.keywords = <<"kw", "">>],
      [GoodStep2 EXCEPT !.keywords = Kw(max_keywords + 1)],
      [GoodStep2 EXCEPT !.title.tags = TRUE],
      [GoodStep2 EXCEPT !.category = "physics"] }

\* A step-1 payload carries any subset of the three flags (the serializer is
\* built with partial=True).
Step1Inputs ==
    { [f \in Step1Fields |-> TRUE],
      [f \in Step1Fields |-> f # "agrees_to_privacy"],
      [f \in {"agrees_to_copyright"} |-> TRUE],
      [f \in {} |-> TRUE] }

Step5Inputs ==
    { [f \in Step5Fields |-> TRUE],
      [f \in Step5Fields |-> f # "confirms_submission"],
      [f \in Step5Fields |-> FALSE] }

FileA == [file_name |-> "a.pdf", file_size |-> 1024, file_type |-> "pdf"]
FileB == [file_name |-> "b.docx", file_size |-> max_size, file_type |-> "docx"]
FileBig == [file_name |-> "c.rtf", file_size |-> max_size + 1, file_type |-> "rtf"]
FileExe == [file_name |-> "d.exe", file_size |-> 1024, file_type |-> "exe"]

Step3Inputs == {<<>>, <<FileA>>, <<FileA, FileB>>, <<FileExe>>, <<FileA, FileBig>>}

ReviewerA ==
    [reviewer_prefix |-> "Dr", name_chars |-> min_reviewer_name, email_matches |-> TRUE,
     department_chars |-> 1, affiliation_chars |-> max_department]
ReviewerBad == [ReviewerA EXCEPT !.reviewer_prefix = "Sir"]
ReviewerNoMail == [ReviewerA EXCEPT !.email_matches = FALSE]

ReviewerB == [ReviewerA EXCEPT !.reviewer_prefix = "Prof"]

Step4Inputs ==
    {<<>>, <<ReviewerA>>, <<ReviewerA, ReviewerB>>, <<ReviewerBad>>,
     <<ReviewerA, ReviewerNoMail>>, <<ReviewerA, ReviewerB, ReviewerA>>}

NameInputs == {" ", "Dr. John Smith"}

\* str.strip() on the modelled author strings.
strip(s) == IF s = " " THEN "" ELSE s

(***************************************************************************)
(* Serializer validation (submissions/serializers.py).                     *)
(***************************************************************************)
\* WordCountValidator.__call__ on a text of `words` words.
\* WordCountValidator with both comparisons made inclusive: 150 and 200 words
\* are turned away.
WordCountValidator_Exclusive(words) ==
    /\ words # 0
    /\ ~(words <= min_words)
    /\ ~(words >= max_words)

WordCountValidator(words) ==
    /\ words # 0
    /\ ~(words < min_words)
    /\ ~(words > max_words)

\* KeywordValidator.__call__: the non-empty stripped entries are counted.
KeywordCount(entries) == Cardinality({i \in DOMAIN entries : entries[i] # ""})

KeywordValidator(entries) ==
    /\ KeywordCount(entries) # 0
    /\ ~(KeywordCount(entries) < min_keywords)
    /\ ~(KeywordCount(entries) > max_keywords)

validate_title(t) ==
    /\ t.chars # 0
    /\ ~(t.chars < min_title)
    /\ ~(t.chars > max_title)
    /\ ~t.tags

validate_abstract(a) ==
    /\ a.words # 0
    /\ ~a.tags
    /\ WordCountValidator(a.words)

validate_keywords(k) == KeywordValidator(k)

valid_categories ==
    {"ai", "architecture", "basic", "biomedical", "business",
     "cs", "data", "economics", "engineering", "management"}

validate_category(c) == c \in valid_categories

\* SubmissionStep1Serializer(step1, data, partial=True).is_valid(): a field
\* validator runs for the fields the payload carries.
Step1IsValid(data) == \A f \in DOMAIN data : data[f]

\* serializer.save() of a partial update: the fields carried are written.
Step1Save(row, data) == [f \in Step1Fields |-> IF f \in DOMAIN data THEN data[f] ELSE row[f]]

Step2IsValid(data) ==
    /\ validate_title(data.title)
    /\ validate_abstract(data.abstract)
    /\ validate_keywords(data.keywords)
    /\ validate_category(data.category)

valid_types == {"pdf", "docx", "rtf"}

\* SubmissionStep3Serializer(data=file_data).is_valid()
Step3IsValid(f) ==
    /\ f.file_name # ""
    /\ ~(f.file_size > max_size)
    /\ ~(f.file_size <= 0)
    /\ f.file_type \in valid_types

valid_prefixes == {"Dr", "Prof", "Mr", "Ms"}

\* SubmissionStep4Serializer(data=reviewer_data).is_valid()
Step4IsValid(r) ==
    /\ r.reviewer_prefix \in valid_prefixes
    /\ ~(r.name_chars < min_reviewer_name)
    /\ ~(r.name_chars > max_reviewer_name)
    /\ r.email_matches
    /\ r.department_chars # 0 /\ ~(r.department_chars > max_department)
    /\ r.affiliation_chars # 0 /\ ~(r.affiliation_chars > max_department)

Step5IsValid(data) == \A f \in Step5Fields : data[f]

\* The save loops of steps 3 and 4 validate and save the entries in order and
\* return at the first invalid one: the entries before it have been saved.
SavedFiles(files_data) ==
    LET k == CHOOSE n \in 0..Len(files_data) :
                 /\ \A i \in 1..n : Step3IsValid(files_data[i])
                 /\ (n < Len(files_data) => ~Step3IsValid(files_data[n + 1]))
    IN  SubSeq(files_data, 1, k)

\* reviewer_data['reviewer_number'] = idx (enumerate from 1), then as above.
SavedReviewers(reviewers_data) ==
    LET k == CHOOSE n \in 0..Len(reviewers_data) :
                 /\ \A i \in 1..n : Step4IsValid(reviewers_data[i])
                 /\ (n < Len(reviewers_data) => ~Step4IsValid(reviewers_data[n + 1]))
    IN  [i \in 1..k |-> [reviewer_number |-> i, reviewer |-> reviewers_data[i]]]

(***************************************************************************)
(* Responses and the checks of the step gate (submissions/views.py).       *)
(***************************************************************************)
Response(op, id, n, status, error) ==
    [op |-> op, id |-> id, step |-> n, status |-> status,
     success |-> (status \in {HTTP_200_OK, HTTP_201_CREATED}), error |-> error]

NoResponse == [op |-> "none", id |-> 0, step |-> 0, status |-> 0, success |-> FALSE, error |-> ""]

IsLocked_Never(sub) == FALSE

IsLocked_Status(sub) == sub.status = "submitted"

\* "if submission.is_locked": the request is refused with 403.
IsLocked(sub) == sub.is_locked

StepOrderViolation_OffByOne(sub, n) == sub.current_step < n - 1

\* "if submission.current_step < n": the request is refused with 400.
StepOrderViolation(sub, n) == sub.current_step < n

AdvanceStep_Increment(sub, n) == [sub EXCEPT !.current_step = sub.current_step + 1]

\* "submission.current_step = n + 1" before submission.save().
AdvanceStep(sub, n) == [sub EXCEPT !.current_step = n + 1]

PremisesNotMet_OffByOne(sub) == sub.current_step < FINAL_STEP - 1

PremisesNotMet_Reversed(sub) == sub.current_step > FINAL_STEP

\* FinalizeSubmissionView: "if submission.current_step < 6".
PremisesNotMet(sub) == sub.current_step < FINAL_STEP

\* Submission.mark_as_submitted(): status SUBMITTED, locked, submitted_at = now.
mark_as_submitted(sub) ==
    [sub EXCEPT !.status = "SUBMITTED", !.is_locked = TRUE, !.submitted_at = "now"]

\* generate_submission_id(): the rows are counted and the next sequence
\* number is formatted; the identifier is modelled by its sequence number.
generate_submission_id(table) == Cardinality(DOMAIN table) + 1

\* submission.save(): the loaded object is written back, every field of it.
SaveSubmission(id, sub) == submissions' = Put(submissions, id, sub)

Reply(op, id, n, status, error) ==
    /\ response' = Response(op, id, n, status, error)
    /\ UNCHANGED tables

(***************************************************************************)
(* The handlers, after get_object_or_404 has loaded `sub`.                 *)
(***************************************************************************)
SaveStep1(sub, id, data) ==
    IF IsLocked(sub) THEN Reply("save_step", id, 1, HTTP_403_FORBIDDEN, "locked")
    ELSE LET t == get_or_create(step1, id, EmptyStep1) IN
         IF ~Step1IsValid(data)
         THEN /\ step1' = t
              /\ response' = Response("save_step", id, 1, HTTP_400_BAD_REQUEST, "validation")
              /\ UNCHANGED <<submissions, step2, step3, step4, step5>>
         ELSE /\ step1' = Put(t, id, Step1Save(t[id], data))
              /\ SaveSubmission(id, AdvanceStep(sub, 1))
              /\ response' = Response("save_step", id, 1, HTTP_200_OK, "")
              /\ UNCHANGED <<step2, step3, step4, step5>>

SaveStep2(sub, id, data) ==
    IF IsLocked(sub) THEN Reply("save_step", id, 2, HTTP_403_FORBIDDEN, "locked")
    ELSE IF StepOrderViolation(sub, 2)
    THEN Reply("save_step", id, 2, HTTP_400_BAD_REQUEST, "step_order")
    ELSE LET t == get_or_create(step2, id, EmptyStep2) IN
         IF ~Step2IsValid(data)
         THEN /\ step2' = t
              /\ response' = Response("save_step", id, 2, HTTP_400_BAD_REQUEST, "validation")
              /\ UNCHANGED <<submissions, step1, step3, step4, step5>>
         ELSE /\ step2' = Put(t, id, data)
              /\ SaveSubmission(id, AdvanceStep(sub, 2))
              /\ response' = Response("save_step", id, 2, HTTP_200_OK, "")
              /\ UNCHANGED <<step1, step3, step4, step5>>

SaveStep3(sub, id, files_data) ==
    IF IsLocked(sub) THEN Reply("save_step", id, 3, HTTP_403_FORBIDDEN, "locked")
    ELSE IF StepOrderViolation(sub, 3)
    THEN Reply("save_step", id, 3, HTTP_400_BAD_REQUEST, "step_order")
    ELSE IF files_data = <<>>
    THEN Reply("save_step", id, 3, HTTP_400_BAD_REQUEST, "validation")
    ELSE LET saved == SavedFiles(files_data) IN
         /\ Len(step3[id]) + Len(saved) <= MaxFiles
         /\ step3' = Put(step3, id, step3[id] \o saved)
         /\ IF Len(saved) < Len(files_data)
            THEN /\ response' = Response("save_step", id, 3, HTTP_400_BAD_REQUEST, "validation")
                 /\ UNCHANGED <<submissions, step1, step2, step4, step5>>
            ELSE /\ SaveSubmission(id, AdvanceStep(sub, 3))
                 /\ response' = Response("save_step", id, 3, HTTP_200_OK, "")
                 /\ UNCHANGED <<step1, step2, step4, step5>>

SaveStep4(sub, id, reviewers_data) ==
    IF IsLocked(sub) THEN Reply("save_step", id, 4, HTTP_403_FORBIDDEN, "locked")
    ELSE IF StepOrderViolation(sub, 4)
    THEN Reply("save_step", id, 4, HTTP_400_BAD_REQUEST, "step_order")
    ELSE IF reviewers_data = <<>> \/ Len(reviewers_data) > max_reviewers
    THEN Reply("save_step", id, 4, HTTP_400_BAD_REQUEST, "validation")
    ELSE LET saved == SavedReviewers(reviewers_data) IN
         /\ Len(step4[id]) + Len(saved) <= MaxReviewers
         /\ step4' = Put(step4, id, step4[id] \o saved)
         /\ IF Len(saved) < Len(reviewers_data)
            THEN /\ response' = Response("save_step", id, 4, HTTP_400_BAD_REQUEST, "validation")
                 /\ UNCHANGED <<submissions, step1, step2, step3, step5>>
            ELSE /\ SaveSubmission(id, AdvanceStep(sub, 4))
                 /\ response' = Response("save_step", id, 4, HTTP_200_OK, "")
                 /\ UNCHANGED <<step1, step2, step3, step5>>

SaveStep5(sub, id, data) ==
    IF IsLocked(sub) THEN Reply("save_step", id, 5, HTTP_403_FORBIDDEN, "locked")
    ELSE IF StepOrderViolation(sub, 5)
    THEN Reply("save_step", id, 5, HTTP_400_BAD_REQUEST, "step_order")
    ELSE LET t == get_or_create(step5, id, EmptyStep5) IN
         IF ~Step5IsValid(data)
         THEN /\ step5' = t
              /\ response' = Response("save_step", id, 5, HTTP_400_BAD_REQUEST, "validation")
              /\ UNCHANGED <<submissions, step1, step2, step3, step4>>
         ELSE /\ step5' = Put(t, id, data)
              /\ SaveSubmission(id, AdvanceStep(sub, 5))
              /\ response' = Response("save_step", id, 5, HTTP_200_OK, "")
              /\ UNCHANGED <<step1, step2, step3, step4>>

FinalizeSubmission(sub, id) ==
    IF IsLocked(sub) THEN Reply("finalize", id, FINAL_STEP, HTTP_403_FORBIDDEN, "locked")
    ELSE IF PremisesNotMet(sub)
    THEN Reply("finalize", id, FINAL_STEP, HTTP_400_BAD_REQUEST, "step_order")
    ELSE /\ SaveSubmission(id, mark_as_submitted(sub))
         /\ response' = Response("finalize", id, FINAL_STEP, HTTP_200_OK, "")
         /\ UNCHANGED <<step1, step2, step3, step4, step5>>

\* get_object_or_404 raises Http404 inside the handler's try block; the
\* handlers catch it with "except Exception" and answer 500.
NotFound(op, id, n) == Reply(op, id, n, HTTP_500_INTERNAL_SERVER_ERROR, "exception")

\* The processes that serve requests and run jobs, and a process at rest.
Workers == {"w1", "w2"}

Idle == [pc |-> "idle"]

(***************************************************************************)
(* Email service (emails/models.py, emails/services.py).                   *)
(*                                                                         *)
(* A template is modelled by its name, its type, its active flag and the   *)
(* set of variables that its subject and bodies reference; a text by the   *)
(* sequence of its pieces (<<>> for None, "" for an empty piece).          *)
(***************************************************************************)
Template(name, email_type, refs) ==
    [name |-> name, email_type |-> email_type, refs |-> refs, is_active |-> TRUE]

\* The templates loaded by emails/fixtures/email_templates.py.
Fixture ==
    { Template("submission_confirmation", "SUBMISSION_CONFIRMATION",
               {"article_title", "author_name", "portal_url", "submission_date",
                "submission_number", "support_email"}),
      Template("admin_notification", "ADMIN_NOTIFICATION",
               {"article_title", "author_email", "author_name", "category",
                "dashboard_url", "submission_number", "timestamp"}),
      Template("review_update", "REVIEW_UPDATE",
               {"article_title", "portal_url", "review_status", "reviewer_comments",
                "submission_number"}),
      Template("acceptance", "ACCEPTANCE",
               {"article_title", "author_name", "next_steps_url", "submission_number",
                "support_email"}),
      Template("rejection", "REJECTION",
               {"article_title", "author_name", "rejection_reason", "resubmit_info",
                "submission_number", "support_email"}),
      Template("contact_reply", "CONTACT_REPLY",
               {"name", "reply_message", "subject_line"}) }

\* The convenience senders of EmailService.
Senders ==
    {"send_submission_confirmation", "send_admin_notification", "send_review_update",
     "send_acceptance_email", "send_rejection_email", "send_contact_reply"}

\* The template type a sender asks get_template for.
template_type(sender) ==
    CASE sender = "send_submission_confirmation" -> "SUBMISSION_CONFIRMATION"
      [] sender = "send_admin_notification" -> "ADMIN_NOTIFICATION"
      [] sender = "send_review_update" -> "REVIEW_UPDATE"
      [] sender = "send_acceptance_email" -> "ACCEPTANCE"
      [] sender = "send_rejection_email" -> "REJECTION"
      [] OTHER -> "CONTACT_REPLY"

\* The keys of the context dictionary a sender builds.
context(sender) ==
    CASE sender = "send_submission_confirmation" ->
             {"author_name", "submission_number", "article_title", "submission_date",
              "portal_url", "support_email"}
      [] sender = "send_admin_notification" ->
             {"submission_number", "article_title", "author_name", "author_email",
              "category", "dashboard_url", "timestamp"}
      [] sender = "send_review_update" ->
             {"submission_number", "article_title", "review_status", "reviewer_comments",
              "portal_url", "support_email"}
      [] sender = "send_acceptance_email" ->
             {"author_name", "submission_number", "article_title",
              "congratulations_message", "next_steps_url", "support_email"}
      [] sender = "send_rejection_email" ->
             {"author_name", "submission_number", "article_title", "rejection_reason",
              "resubmit_info", "support_email"}
      [] OTHER ->
             {"name", "subject_line", "reply_message", "support_email", "contact_url"}

\* The recipient a sender passes to send_email.
recipient_of(sender) ==
    IF sender = "send_admin_notification" THEN "admin@istpublications.com"
    ELSE "john@example.com"

\* What a call into EmailService gave its caller: the EmailLog row it returned
\* (log, 0 for none), the count it returned, or the exception it raised.
Returned(op, log, count) ==
    [op |-> op, outcome |-> "returned", log |-> log, count |-> count,
     exception |-> "", message |-> <<>>]

Raised(op, exception, message) ==
    [op |-> op, outcome |-> "raised", log |-> 0, count |-> 0,
     exception |-> exception, message |-> message]

NoResult ==
    [op |-> "none", outcome |-> "none", log |-> 0, count |-> 0,
     exception |-> "", message |-> <<>>]

\* EmailService.get_template: EmailTemplate.objects.get(email_type=..., is_active=True)
\* matches these rows.
ActiveTemplates(email_type) ==
    {t \in templates : t.email_type = email_type /\ t.is_active}

\* EmailTemplate.render: str.format(**context) raises KeyError for a variable
\* that the context lacks, re-raised as ValueError naming it.
MissingVariables(template, keys) == template.refs \ keys

\* EmailLog.mark_as_sent: save(update_fields=['status', 'sent_at', 'updated_at']).
mark_as_sent(row) == [row EXCEPT !.status = "SENT", !.sent_at = "now"]

\* EmailLog.mark_as_failed: save(update_fields=['status', 'failed_reason', 'updated_at']).
mark_as_failed(row, reason) == [row EXCEPT !.status = "FAILED", !.failed_reason = reason]

\* As increment_retry, but the status of the row is left as it was.
increment_retry_StaysFailed(row, loaded) ==
    [row EXCEPT !.retry_count = loaded + 1]

\* As increment_retry, but the row is resent and marked SENT.
increment_retry_Resends(row, loaded) ==
    [row EXCEPT !.retry_count = loaded + 1, !.status = "SENT", !.sent_at = "now"]

\* EmailLog.increment_retry on an object loaded with retry_count = loaded:
\* save(update_fields=['retry_count', 'status', 'updated_at']).
increment_retry(row, loaded) ==
    [row EXCEPT !.retry_count = loaded + 1, !.status = "RETRYING"]

\* What email.send(fail_silently=False) can do: return, raise an
\* smtplib.SMTPException, or raise any other exception (str(e) may be empty).
Deliveries ==
    { [raises |-> "none", str |-> ""],
      [raises |-> "SMTPException", str |-> "Connection unexpectedly closed"],
      [raises |-> "Exception", str |-> ""] }

\* The error_msg of the except clause that catches the delivery's exception.
error_msg(delivery) ==
    IF delivery.raises = "SMTPException"
    THEN <<"SMTP Error: ", delivery.str>>
    ELSE <<"Unexpected error: ", delivery.str>>

\* The text has at least one character.
NonEmpty(text) == \E i \in DOMAIN text : text[i] # ""

\* send_email up to the try block: EmailLog.objects.create(..., status='PENDING').
\* submission_id 0 and template_used "" stand for None.
CreateLog(w, op, recipient, email_type, submission_id, template_used) ==
    /\ Cardinality(DOMAIN transport) < MaxEmails
    /\ email_log' = Append(email_log,
                           [recipient_email |-> recipient, email_type |-> email_type,
                            submission_id |-> submission_id, template_used |-> template_used,
                            status |-> "PENDING", sent_at |-> "null",
                            failed_reason |-> <<>>, retry_count |-> 0])
    /\ transport' = transport @@ (Len(email_log) + 1 :> 0)
    /\ inflight' = [inflight EXCEPT ![w] =
                        [pc |-> "pending", op |-> op, log |-> Len(email_log) + 1]]
    /\ UNCHANGED <<templates, email_result>>

\* The call raises before send_email is reached.
SenderRaises(op, exception, message) ==
    /\ email_result' = Raised(op, exception, message)
    /\ UNCHANGED <<templates, email_log, transport, inflight>>

\* As Sender, but a missing template is answered like a failed delivery: a
\* FAILED row is written and returned.
Sender_LogsMissingTemplate(w, sender, submission_number) ==
    /\ inflight[w].pc = "idle"
    /\ Cardinality(DOMAIN transport) < MaxEmails
    /\ email_log' = Append(email_log,
                           [recipient_email |-> recipient_of(sender),
                            email_type |-> template_type(sender),
                            submission_id |-> submission_number, template_used |-> "",
                            status |-> "FAILED", sent_at |-> "null",
                            failed_reason |-> <<"template not found">>, retry_count |-> 0])
    /\ transport' = transport @@ (Len(email_log) + 1 :> 0)
    /\ email_result' = Returned(sender, Len(email_log) + 1, 0)
    /\ UNCHANGED <<templates, inflight>>
    /\ UNCHANGED <<tables, response, lost_update, succeeded>>

\* send_submission_confirmation, send_admin_notification, send_review_update,
\* send_acceptance_email, send_rejection_email, send_contact_reply: get_template,
\* render_template, then send_email up to the creation of the log row.
\* (send_contact_reply passes neither submission_id nor template.)
Sender(w, sender, submission_number) ==
    /\ inflight[w].pc = "idle"
    /\ LET active == ActiveTemplates(template_type(sender)) IN
       IF active = {}
       THEN SenderRaises(sender, "ValueError", <<template_type(sender), " template not found">>)
       ELSE IF Cardinality(active) > 1
       THEN SenderRaises(sender, "MultipleObjectsReturned", <<"get() returned more than one EmailTemplate">>)
       ELSE LET template == CHOOSE t \in active : TRUE
                missing == MissingVariables(template, context(sender))
            IN  IF missing # {}
                THEN SenderRaises(sender, "ValueError",
                                  <<"Missing template variable: ", CHOOSE x \in missing : TRUE>>)
                ELSE IF sender = "send_contact_reply"
                THEN CreateLog(w, sender, recipient_of(sender), template_type(sender), 0, "")
                ELSE CreateLog(w, sender, recipient_of(sender), template_type(sender),
                               submission_number, template.name)
    /\ UNCHANGED <<tables, response, lost_update, succeeded>>

\* send_email called directly, with the default email_type and no submission.
SendEmail(w) ==
    /\ inflight[w].pc = "idle"
    /\ CreateLog(w, "send_email", "john@example.com", "GENERAL", 0, "")
    /\ UNCHANGED <<tables, response, lost_update, succeeded>>

\* As Deliver, but an exception that is not an SMTPException is not caught.
Deliver_Propagate(w, delivery) ==
    LET i == inflight[w].log IN
    /\ inflight[w].pc = "pending"
    /\ transport' = [transport EXCEPT ![i] = @ + 1]
    /\ IF delivery.raises = "Exception"
       THEN /\ email_result' = Raised(inflight[w].op, "Exception", <<delivery.str>>)
            /\ UNCHANGED email_log
       ELSE /\ email_log' = [email_log EXCEPT ![i] =
                                IF delivery.raises = "none" THEN mark_as_sent(@)
                                ELSE mark_as_failed(@, error_msg(delivery))]
            /\ email_result' = Returned(inflight[w].op, i, 0)
    /\ inflight' = [inflight EXCEPT ![w] = Idle]
    /\ UNCHANGED <<templates, tables, response, lost_update, succeeded>>

\* As Deliver, but the row of a delivery that raised is left as it was created.
Deliver_LeavesPending(w, delivery) ==
    LET i == inflight[w].log IN
    /\ inflight[w].pc = "pending"
    /\ transport' = [transport EXCEPT ![i] = @ + 1]
    /\ email_log' = [email_log EXCEPT ![i] =
                        IF delivery.raises = "none" THEN mark_as_sent(@) ELSE @]
    /\ email_result' = Returned(inflight[w].op, i, 0)
    /\ inflight' = [inflight EXCEPT ![w] = Idle]
    /\ UNCHANGED <<templates, tables, response, lost_update, succeeded>>

\* The try block of send_email and its except clauses: email.send() runs once;
\* the row is marked SENT, or FAILED with the error_msg, and returned.
Deliver(w, delivery) ==
    LET i == inflight[w].log IN
    /\ inflight[w].pc = "pending"
    /\ transport' = [transport EXCEPT ![i] = @ + 1]
    /\ email_log' = [email_log EXCEPT ![i] =
                        IF delivery.raises = "none" THEN mark_as_sent(@)
                        ELSE mark_as_failed(@, error_msg(delivery))]
    /\ email_result' = Returned(inflight[w].op, i, 0)
    /\ inflight' = [inflight EXCEPT ![w] = Idle]
    /\ UNCHANGED <<templates, tables, response, lost_update, succeeded>>

\* The given rows of the log, oldest first, as the objects
\* a query loads: the row's position and the retry_count read.
Loaded(rows) ==
    LET RECURSIVE Collect(_)
        Collect(i) ==
            IF i > Len(email_log) THEN <<>>
            ELSE IF i \in rows
                 THEN <<[log |-> i, retry_count |-> email_log[i].retry_count]>> \o Collect(i + 1)
                 ELSE Collect(i + 1)
    IN  Collect(1)

max_retry_count == 5

\* As get_failed_emails, without the retry_count__lt filter.
get_failed_emails_NoCap ==
    Loaded({i \in DOMAIN email_log : email_log[i].status = "FAILED"})

\* EmailLog.get_failed_emails():
\* filter(status='FAILED', retry_count__lt=5).order_by('created_at').
get_failed_emails ==
    Loaded({i \in DOMAIN email_log :
               /\ email_log[i].status = "FAILED"
               /\ email_log[i].retry_count < max_retry_count})

\* The max_retries arguments tried: one below the cap of get_failed_emails,
\* the default, and one above the cap.
MaxRetriesInputs == {2, 5, 10}

\* retry_failed_emails(max_retries) up to the start of its loop: the query is
\* evaluated; with nothing to iterate the call returns 0.
RetryStart(w, max_retries) ==
    /\ inflight[w].pc = "idle"
    /\ IF get_failed_emails = <<>>
       THEN /\ email_result' = Returned("retry_failed_emails", 0, 0)
            /\ UNCHANGED inflight
       ELSE /\ inflight' = [inflight EXCEPT ![w] =
                               [pc |-> "retrying", failed_emails |-> get_failed_emails,
                                max_retries |-> max_retries, retried_count |-> 0]]
            /\ UNCHANGED email_result
    /\ UNCHANGED <<templates, email_log, transport>>
    /\ UNCHANGED <<tables, response, lost_update, succeeded>>

\* As RetryStep, but retried_count is raised for a skipped row as well.
RetryStep_CountsSkipped(w) ==
    LET r == inflight[w]
        email == Head(r.failed_emails)
        skip == email.retry_count >= r.max_retries
        retried_count == r.retried_count + 1
    IN  /\ r.pc = "retrying"
        /\ email_log' = IF skip THEN email_log
                        ELSE [email_log EXCEPT ![email.log] =
                                 increment_retry(@, email.retry_count)]
        /\ IF Tail(r.failed_emails) = <<>>
           THEN /\ email_result' = Returned("retry_failed_emails", 0, retried_count)
                /\ inflight' = [inflight EXCEPT ![w] = Idle]
           ELSE /\ inflight' = [inflight EXCEPT ![w] =
                                   [r EXCEPT !.failed_emails = Tail(@),
                                             !.retried_count = retried_count]]
                /\ UNCHANGED email_result
        /\ UNCHANGED <<templates, transport>>
        /\ UNCHANGED <<tables, response, lost_update, succeeded>>

\* One iteration of the loop of retry_failed_emails, on the object loaded by
\* the query; after the last one the call returns retried_count.
RetryStep(w) ==
    LET r == inflight[w]
        email == Head(r.failed_emails)
        skip == email.retry_count >= r.max_retries
        retried_count == IF skip THEN r.retried_count ELSE r.retried_count + 1
    IN  /\ r.pc = "retrying"
        /\ email_log' = IF skip THEN email_log
                        ELSE [email_log EXCEPT ![email.log] =
                                 increment_retry(@, email.retry_count)]
        /\ IF Tail(r.failed_emails) = <<>>
           THEN /\ email_result' = Returned("retry_failed_emails", 0, retried_count)
                /\ inflight' = [inflight EXCEPT ![w] = Idle]
           ELSE /\ inflight' = [inflight EXCEPT ![w] =
                                   [r EXCEPT !.failed_emails = Tail(@),
                                             !.retried_count = retried_count]]
                /\ UNCHANGED email_result
        /\ UNCHANGED <<templates, transport>>
        /\ UNCHANGED <<tables, response, lost_update, succeeded>>

\* retry_failed_emails(max_retries) run from its query to its return with no
\* other process in between: every loaded row below max_retries gets
\* increment_retry, and the number of those rows is returned.
retry_failed_emails(max_retries) ==
    LET failed_emails == get_failed_emails
        retried == {failed_emails[k].log : k \in {k \in DOMAIN failed_emails :
                                                     ~(failed_emails[k].retry_count >= max_retries)}}
    IN  /\ email_log' = [i \in DOMAIN email_log |->
                            IF i \in retried
                            THEN increment_retry(email_log[i], email_log[i].retry_count)
                            ELSE email_log[i]]
        /\ email_result' = Returned("retry_failed_emails", 0, Cardinality(retried))
        /\ UNCHANGED <<templates, transport, inflight>>
        /\ UNCHANGED <<tables, response, lost_update, succeeded>>

(***************************************************************************)
(* Statistics (EmailService.get_email_statistics).                         *)
(***************************************************************************)
\* EmailLog.objects.filter(status__in=statuses).count()
CountStatus(statuses) ==
    Cardinality({i \in DOMAIN email_log : email_log[i].status \in statuses})

\* filter(status='SENT', created_at__date=today).count(): the rows created by
\* the sends of the behaviour are today's, the rows the log started with are older.
CountSentToday ==
    Cardinality({i \in DOMAIN transport : email_log[i].status = "SENT"})

\* The quotient (failed / total) * 100, kept as the exact fraction
\* num / den; 0.0 is 0 / 1.
Percent(failed, total) == [num |-> failed * 100, den |-> total]

ZeroRate == [num |-> 0, den |-> 1]

\* As calculate_failure_rate, with total counted over every row of the log.
calculate_failure_rate_AllRows ==
    LET total == Len(email_log) IN
    IF total = 0 THEN ZeroRate
    ELSE Percent(CountStatus({"FAILED"}), total)

\* EmailService._calculate_failure_rate, both queries on one state of the log.
calculate_failure_rate ==
    LET total == CountStatus({"SENT", "FAILED"}) IN
    IF total = 0 THEN ZeroRate
    ELSE Percent(CountStatus({"FAILED"}), total)

\* The dictionary that get_email_statistics returns.
Statistics(total_sent, total_failed, total_pending, today_sent, failure_rate) ==
    [op |-> "get_email_statistics", outcome |-> "returned", log |-> 0, count |-> 0,
     exception |-> "", message |-> <<>>,
     stats |-> [total_sent |-> total_sent, total_failed |-> total_failed,
                total_pending |-> total_pending, today_sent |-> today_sent,
                failure_rate |-> failure_rate]]

\* get_email_statistics run with no other process between its queries.
get_email_statistics ==
    /\ email_result' = Statistics(CountStatus({"SENT"}), CountStatus({"FAILED"}),
                                  CountStatus({"PENDING"}), CountSentToday,
                                  calculate_failure_rate)
    /\ UNCHANGED <<templates, email_log, transport, inflight>>
    /\ UNCHANGED <<tables, response, lost_update, succeeded>>

\* get_email_statistics of process w, query by query.  The four counts of the
\* dictionary come first; they are read together here.
StatsCounts(w) ==
    /\ inflight[w].pc = "idle"
    /\ inflight' = [inflight EXCEPT ![w] =
                       [pc |-> "counted",
                        total_sent |-> CountStatus({"SENT"}),
                        total_failed |-> CountStatus({"FAILED"}),
                        total_pending |-> CountStatus({"PENDING"}),
                        today_sent |-> CountSentToday]]
    /\ UNCHANGED <<templates, email_log, transport, email_result>>
    /\ UNCHANGED <<tables, response, lost_update, succeeded>>

\* _calculate_failure_rate, first query: total; 0.0 is returned if it is 0.
StatsTotal(w) ==
    LET r == inflight[w]
        total == CountStatus({"SENT", "FAILED"})
    IN  /\ r.pc = "counted"
        /\ IF total = 0
           THEN /\ email_result' = Statistics(r.total_sent, r.total_failed, r.total_pending,
                                              r.today_sent, ZeroRate)
                /\ inflight' = [inflight EXCEPT ![w] = Idle]
           ELSE /\ inflight' = [inflight EXCEPT ![w] =
                                   [pc |-> "total", total_sent |-> r.total_sent,
                                    total_failed |-> r.total_failed,
                                    total_pending |-> r.total_pending,
                                    today_sent |-> r.today_sent, total |-> total]]
                /\ UNCHANGED email_result
        /\ UNCHANGED <<templates, email_log, transport>>
        /\ UNCHANGED <<tables, response, lost_update, succeeded>>

\* _calculate_failure_rate, second query: failed, then the division.
StatsFailed(w) ==
    LET r == inflight[w]
        failed == CountStatus({"FAILED"})
    IN  /\ r.pc = "total"
        /\ email_result' = Statistics(r.total_sent, r.total_failed, r.total_pending,
                                      r.today_sent, Percent(failed, r.total))
        /\ inflight' = [inflight EXCEPT ![w] = Idle]
        /\ UNCHANGED <<templates, email_log, transport>>
        /\ UNCHANGED <<tables, response, lost_update, succeeded>>

(***************************************************************************)
(* Requests served one at a time.                                          *)
(***************************************************************************)
\* Requests address the first submission created or an identifier that no
\* submission has (sequence numbers start at 1).
RequestIds == {0, 1}

\* The steps of submission id that have succeeded, in the order of their first
\* success (finalize is recorded as step 6).
History(id) == IF id \in DOMAIN succeeded THEN succeeded[id] ELSE <<>>

\* History bookkeeping of the request on (id, n) that is being answered.
FirstSuccess(id, n) ==
    succeeded' = IF response'.success /\ \A i \in DOMAIN History(id) : History(id)[i] # n
                 THEN Put(succeeded, id, Append(History(id), n))
                 ELSE succeeded

Init ==
    /\ submissions = <<>>
    /\ step1 = <<>>
    /\ step2 = <<>>
    /\ step3 = <<>>
    /\ step4 = <<>>
    /\ step5 = <<>>
    /\ response = NoResponse
    /\ inflight = [w \in Workers |-> Idle]
    /\ lost_update = FALSE
    /\ succeeded = <<>>
    /\ templates = Fixture
    /\ email_log = <<>>
    /\ transport = <<>>
    /\ email_result = NoResult

CreateSubmission(author_name, author_email) ==
    /\ IF strip(author_name) = "" \/ strip(author_email) = ""
       THEN Reply("create", 0, 1, HTTP_400_BAD_REQUEST, "validation")
       ELSE LET submission_id == generate_submission_id(submissions) IN
            /\ Cardinality(DOMAIN submissions) < MaxSubmissions
            /\ submissions' = Put(submissions, submission_id, NewSubmission)
            /\ step1' = Put(step1, submission_id, EmptyStep1)
            /\ step3' = Put(step3, submission_id, <<>>)
            /\ step4' = Put(step4, submission_id, <<>>)
            /\ response' = Response("create", submission_id, 1, HTTP_201_CREATED, "")
            /\ UNCHANGED <<step2, step5>>
    /\ UNCHANGED <<inflight, lost_update, succeeded, emailvars>>

Step1Request(id, data) ==
    /\ IF id \notin DOMAIN submissions THEN NotFound("save_step", id, 1)
       ELSE SaveStep1(submissions[id], id, data)
    /\ FirstSuccess(id, 1)
    /\ UNCHANGED <<inflight, lost_update, emailvars>>

Step2Request(id, data) ==
    /\ IF id \notin DOMAIN submissions THEN NotFound("save_step", id, 2)
       ELSE SaveStep2(submissions[id], id, data)
    /\ FirstSuccess(id, 2)
    /\ UNCHANGED <<inflight, lost_update, emailvars>>

Step3Request(id, files_data) ==
    /\ IF id \notin DOMAIN submissions THEN NotFound("save_step", id, 3)
       ELSE SaveStep3(submissions[id], id, files_data)
    /\ FirstSuccess(id, 3)
    /\ UNCHANGED <<inflight, lost_update, emailvars>>

Step4Request(id, reviewers_data) ==
    /\ IF id \notin DOMAIN submissions THEN NotFound("save_step", id, 4)
       ELSE SaveStep4(submissions[id], id, reviewers_data)
    /\ FirstSuccess(id, 4)
    /\ UNCHANGED <<inflight, lost_update, emailvars>>

Step5Request(id, data) ==
    /\ IF id \notin DOMAIN submissions THEN NotFound("save_step", id, 5)
       ELSE SaveStep5(submissions[id], id, data)
    /\ FirstSuccess(id, 5)
    /\ UNCHANGED <<inflight, lost_update, emailvars>>

FinalizeRequest(id) ==
    /\ IF id \notin DOMAIN submissions THEN NotFound("finalize", id, FINAL_STEP)
       ELSE FinalizeSubmission(submissions[id], id)
    /\ FirstSuccess(id, FINAL_STEP)
    /\ UNCHANGED <<inflight, lost_update, emailvars>>

GetSubmission(id) ==
    /\ IF id \notin DOMAIN submissions THEN NotFound("get", id, 0)
       ELSE Reply("get", id, 0, HTTP_200_OK, "")
    /\ UNCHANGED <<inflight, lost_update, succeeded, emailvars>>

\* The payloads tried on submission id: a request for an unknown identifier
\* ends at get_object_or_404, before its payload is read, so one payload
\* stands for all of them.
InputsFor(id, inputs) ==
    IF id \in DOMAIN submissions THEN inputs ELSE {CHOOSE d \in inputs : TRUE}

Next ==
    \/ \E n \in NameInputs, e \in NameInputs : CreateSubmission(n, e)
    \/ \E id \in RequestIds : \E d \in InputsFor(id, Step1Inputs) : Step1Request(id, d)
    \/ \E id \in RequestIds : \E d \in InputsFor(id, Step2Inputs) : Step2Request(id, d)
    \/ \E id \in RequestIds : \E d \in InputsFor(id, Step3Inputs) : Step3Request(id, d)
    \/ \E id \in RequestIds : \E d \in InputsFor(id, Step4Inputs) : Step4Request(id, d)
    \/ \E id \in RequestIds : \E d \in InputsFor(id, Step5Inputs) : Step5Request(id, d)
    \/ \E id \in RequestIds : FinalizeRequest(id)
    \/ \E id \in RequestIds : GetSubmission(id)

Spec == Init /\ [][Next]_vars

(***************************************************************************)
(* Requests served concurrently: a worker loads the Submission object      *)
(* (get_object_or_404), and later runs the rest of the handler on the      *)
(* object it loaded.  No handler takes a lock or opens a transaction.      *)
(***************************************************************************)
\* One accepted payload per step.
GoodPayload(n) ==
    CASE n = 1 -> [f \in Step1Fields |-> TRUE]
      [] n = 2 -> GoodStep2
      [] n = 3 -> <<FileA>>
      [] n = 4 -> <<ReviewerA>>
      [] n = 5 -> [f \in Step5Fields |-> TRUE]
      [] OTHER -> <<>>

\* get_object_or_404(Submission, submission_id=submission_id) finds the row.
\* (A request for an unknown identifier ends at this call; Spec serves it.)
Load(w, n, id) ==
    /\ inflight[w].pc = "idle"
    /\ id \in DOMAIN submissions
    /\ inflight' = [inflight EXCEPT ![w] =
                        [pc |-> "loaded", step |-> n, id |-> id,
                         data |-> GoodPayload(n), sub |-> submissions[id]]]
    /\ UNCHANGED <<tables, response, lost_update, succeeded, emailvars>>

\* A save() that lowers the committed current_step from an object loaded
\* before that value was committed.
LostUpdate(loaded, before, after) ==
    /\ after.current_step < before.current_step
    /\ loaded.current_step < before.current_step

HandlerBody(n, sub, id, data) ==
    CASE n = 1 -> SaveStep1(sub, id, data)
      [] n = 2 -> SaveStep2(sub, id, data)
      [] n = 3 -> SaveStep3(sub, id, data)
      [] n = 4 -> SaveStep4(sub, id, data)
      [] n = 5 -> SaveStep5(sub, id, data)
      [] OTHER -> FinalizeSubmission(sub, id)

\* As Finish, but on the row as it is now instead of the object loaded.
Finish_Reload(w) ==
    LET r == inflight[w] IN
    /\ r.pc = "loaded"
    /\ HandlerBody(r.step, submissions[r.id], r.id, r.data)
    /\ FirstSuccess(r.id, r.step)
    /\ inflight' = [inflight EXCEPT ![w] = Idle]
    /\ UNCHANGED <<lost_update, emailvars>>

\* The rest of the handler, on the loaded object.
Finish(w) ==
    LET r == inflight[w] IN
    /\ r.pc = "loaded"
    /\ HandlerBody(r.step, r.sub, r.id, r.data)
    /\ inflight' = [inflight EXCEPT ![w] = Idle]
    /\ FirstSuccess(r.id, r.step)
    /\ lost_update' = (lost_update \/ LostUpdate(r.sub, submissions[r.id], submissions'[r.id]))
    /\ UNCHANGED emailvars

\* CreateSubmissionView.post up to "submission_id = generate_submission_id()":
\* the rows have been counted, nothing has been written yet.
GenerateId(w, author_name, author_email) ==
    /\ inflight[w].pc = "idle"
    /\ IF strip(author_name) = "" \/ strip(author_email) = ""
       THEN /\ Reply("create", 0, 1, HTTP_400_BAD_REQUEST, "validation")
            /\ UNCHANGED inflight
       ELSE /\ Cardinality(DOMAIN submissions) < MaxSubmissions
            /\ inflight' = [inflight EXCEPT ![w] =
                                [pc |-> "generated",
                                 submission_id |-> generate_submission_id(submissions)]]
            /\ UNCHANGED <<tables, response>>
    /\ UNCHANGED <<lost_update, succeeded, emailvars>>

\* As InsertSubmission, but the row is written whether or not the identifier is taken.
InsertSubmission_Overwrite(w) ==
    LET submission_id == inflight[w].submission_id IN
    /\ inflight[w].pc = "generated"
    /\ submissions' = Put(submissions, submission_id, NewSubmission)
    /\ step1' = Put(step1, submission_id, EmptyStep1)
    /\ step3' = Put(step3, submission_id, <<>>)
    /\ step4' = Put(step4, submission_id, <<>>)
    /\ response' = Response("create", submission_id, 1, HTTP_201_CREATED, "")
    /\ UNCHANGED <<step2, step5>>
    /\ inflight' = [inflight EXCEPT ![w] = Idle]
    /\ UNCHANGED <<lost_update, succeeded, emailvars>>

\* Submission.objects.create(submission_id=submission_id, ...) and the rest of
\* the handler.  The identifier is the unique key of the row: the insert of an
\* identifier that another request has inserted meanwhile raises, and the
\* handler's "except Exception" answers 500.
InsertSubmission(w) ==
    LET submission_id == inflight[w].submission_id IN
    /\ inflight[w].pc = "generated"
    /\ IF submission_id \in DOMAIN submissions
       THEN Reply("create", submission_id, 1, HTTP_500_INTERNAL_SERVER_ERROR, "exception")
       ELSE /\ submissions' = Put(submissions, submission_id, NewSubmission)
            /\ step1' = Put(step1, submission_id, EmptyStep1)
            /\ step3' = Put(step3, submission_id, <<>>)
            /\ step4' = Put(step4, submission_id, <<>>)
            /\ response' = Response("create", submission_id, 1, HTTP_201_CREATED, "")
            /\ UNCHANGED <<step2, step5>>
    /\ inflight' = [inflight EXCEPT ![w] = Idle]
    /\ UNCHANGED <<lost_update, succeeded, emailvars>>

NextConc ==
    \/ \E w \in Workers, n \in NameInputs, e \in NameInputs : GenerateId(w, n, e)
    \/ \E w \in Workers : InsertSubmission(w)
    \/ \E w \in Workers, n \in 1..FINAL_STEP, id \in RequestIds : Load(w, n, id)
    \/ \E w \in Workers : Finish(w)

SpecConc == Init /\ [][NextConc]_vars

(***************************************************************************)
(* The email service: senders, deliveries and retry runs of two processes. *)
(* The EmailTemplate table is what the fixture loaded or what the admin    *)
(* site has made of it.                                                    *)
(***************************************************************************)
\* Every template deactivated.
Deactivated == {[t EXCEPT !.is_active = FALSE] : t \in Fixture}

\* Every template edited to reference a variable that no sender supplies.
Edited == {[t EXCEPT !.refs = @ \cup {"journal_name"}] : t \in Fixture}

\* A second active template of the type SUBMISSION_CONFIRMATION.
Duplicated ==
    Fixture \cup {Template("submission_confirmation_v2", "SUBMISSION_CONFIRMATION",
                           {"author_name", "submission_number"})}

TemplateTables == {Fixture, Deactivated, Edited, Duplicated}

\* The submission_number argument of the senders.
SubmissionNumbers == {1}

InitEmail ==
    /\ submissions = <<>>
    /\ step1 = <<>>
    /\ step2 = <<>>
    /\ step3 = <<>>
    /\ step4 = <<>>
    /\ step5 = <<>>
    /\ response = NoResponse
    /\ inflight = [w \in Workers |-> Idle]
    /\ lost_update = FALSE
    /\ succeeded = <<>>
    /\ templates \in TemplateTables
    /\ email_log = <<>>
    /\ transport = <<>>
    /\ email_result = NoResult

NextEmail ==
    \/ \E w \in Workers, sender \in Senders, n \in SubmissionNumbers : Sender(w, sender, n)
    \/ \E w \in Workers : SendEmail(w)
    \/ \E w \in Workers, delivery \in Deliveries : Deliver(w, delivery)
    \/ \E w \in Workers, max_retries \in MaxRetriesInputs : RetryStart(w, max_retries)
    \/ \E w \in Workers : RetryStep(w)

SpecEmail == InitEmail /\ [][NextEmail]_vars

(***************************************************************************)
(* Retry runs of two processes on a log that already holds failed rows.    *)
(* A FAILED row can carry any retry_count of 0..5: increment_retry leaves  *)
(* a row RETRYING, and EmailLogAdmin.mark_as_failed                        *)
(* (queryset.update(status='FAILED')) makes it FAILED again.               *)
(***************************************************************************)
FailedRow(retry_count) ==
    [recipient_email |-> "john@example.com", email_type |-> "GENERAL",
     submission_id |-> 0, template_used |-> "",
     status |-> "FAILED", sent_at |-> "null",
     failed_reason |-> <<"SMTP Error: ", "Connection unexpectedly closed">>,
     retry_count |-> retry_count]

ExistingLogs ==
    UNION {[1..n -> {FailedRow(r) : r \in 0..max_retry_count}] : n \in 0..MaxEmails}

InitRetry ==
    /\ submissions = <<>>
    /\ step1 = <<>>
    /\ step2 = <<>>
    /\ step3 = <<>>
    /\ step4 = <<>>
    /\ step5 = <<>>
    /\ response = NoResponse
    /\ inflight = [w \in Workers |-> Idle]
    /\ lost_update = FALSE
    /\ succeeded = <<>>
    /\ templates = Fixture
    /\ email_log \in ExistingLogs
    /\ transport = <<>>
    /\ email_result = NoResult

NextRetry ==
    \/ \E w \in Workers : SendEmail(w)
    \/ \E w \in Workers, delivery \in Deliveries : Deliver(w, delivery)
    \/ \E w \in Workers, max_retries \in MaxRetriesInputs : RetryStart(w, max_retries)
    \/ \E w \in Workers : RetryStep(w)

SpecRetry == InitRetry /\ [][NextRetry]_vars

(***************************************************************************)
(* The log pipeline with its calls made one at a time: sends (whose        *)
(* transport call takes time), retry runs and statistics, on a log that    *)
(* already holds rows the pipeline leaves behind: SENT, FAILED and         *)
(* RETRYING after one retry.                                               *)
(***************************************************************************)
CoreRows ==
    { FailedRow(0),
      increment_retry(FailedRow(0), 0),
      [FailedRow(0) EXCEPT !.status = "SENT", !.sent_at = "now", !.failed_reason = <<>>] }

\* The log holds up to one row more than the sends of a behaviour add.
CoreLogs == UNION {[1..n -> CoreRows] : n \in 0..(MaxEmails + 1)}

InitCore ==
    /\ submissions = <<>>
    /\ step1 = <<>>
    /\ step2 = <<>>
    /\ step3 = <<>>
    /\ step4 = <<>>
    /\ step5 = <<>>
    /\ response = NoResponse
    /\ inflight = [w \in Workers |-> Idle]
    /\ lost_update = FALSE
    /\ succeeded = <<>>
    /\ templates = Fixture
    /\ email_log \in CoreLogs
    /\ transport = <<>>
    /\ email_result = NoResult

NextCore ==
    \/ \E w \in Workers : SendEmail(w)
    \/ \E w \in Workers, delivery \in Deliveries : Deliver(w, delivery)
    \/ \E max_retries \in MaxRetriesInputs : retry_failed_emails(max_retries)
    \/ get_email_statistics

SpecCore == InitCore /\ [][NextCore]_vars

(***************************************************************************)
(* Statistics requested while sends are in progress.                       *)
(***************************************************************************)
NextStats ==
    \/ \E w \in Workers : SendEmail(w)
    \/ \E w \in Workers, delivery \in Deliveries : Deliver(w, delivery)
    \/ \E w \in Workers : StatsCounts(w)
    \/ \E w \in Workers : StatsTotal(w)
    \/ \E w \in Workers : StatsFailed(w)

SpecStats == InitCore /\ [][NextStats]_vars

(***************************************************************************)
(* Properties of the step gate.                                            *)
(***************************************************************************)
Created == DOMAIN submissions

\* The step is a save_step(n) request on submission id that has just been answered.
AnsweredSave(id, n) ==
    /\ response'.op = "save_step"
    /\ response'.id = id
    /\ response'.step = n

\* The step is a finalize request on submission id that has just been answered.
AnsweredFinalize(id) ==
    /\ response'.op = "finalize"
    /\ response'.id = id

\* C1: under any sequence of create, save_step and finalize requests, a locked
\* submission has current_step = 6 and status SUBMITTED.
C1_LockedImpliesFinal ==
    \A id \in Created :
        submissions[id].is_locked =>
            /\ submissions[id].current_step = FINAL_STEP
            /\ submissions[id].status = "SUBMITTED"

\* A locked submission that went through all five steps.
C1_Witness ==
    /\ 1 \in Created
    /\ submissions[1].is_locked
    /\ 1 \in DOMAIN step5
    /\ Step5IsValid(step5[1])

\* C2 as stated: locked, status SUBMITTED and current_step = 6 are equivalent.
C2_Original ==
    \A id \in Created :
        /\ submissions[id].is_locked <=> (submissions[id].status = "SUBMITTED")
        /\ (submissions[id].status = "SUBMITTED") <=> (submissions[id].current_step = FINAL_STEP)

\* C2 amended: locked and status SUBMITTED are equivalent and both imply
\* current_step = 6; a submission at current_step = 6 may still be an unlocked DRAFT.
C2_LockedIffSubmitted ==
    \A id \in Created :
        /\ submissions[id].is_locked <=> (submissions[id].status = "SUBMITTED")
        /\ (submissions[id].status = "SUBMITTED") => (submissions[id].current_step = FINAL_STEP)

\* The ready state: step 5 saved, not yet finalized.
C2_Witness ==
    /\ 1 \in Created
    /\ submissions[1].current_step = FINAL_STEP
    /\ ~submissions[1].is_locked
    /\ submissions[1].status = "DRAFT"
    /\ response.op = "save_step" /\ response.step = 5 /\ response.success

\* C3: on a locked submission every save_step(n) and every finalize is refused
\* with the lock error and leaves the Submission row and all sub-records unchanged.
C3_LockedRejectsAll ==
    [][\A id \in Created :
          (/\ submissions[id].is_locked
           /\ (AnsweredFinalize(id) \/ \E n \in 1..5 : AnsweredSave(id, n)))
          => /\ response'.status = HTTP_403_FORBIDDEN
             /\ response'.error = "locked"
             /\ UNCHANGED tables]_vars

\* A save_step of an earlier step refused on a locked submission.
C3_Witness ==
    /\ 1 \in Created
    /\ submissions[1].is_locked
    /\ response.op = "save_step" /\ response.id = 1 /\ response.step = 1
    /\ response.status = HTTP_403_FORBIDDEN

\* C4: save_step(n) on an unlocked submission with current_step < n is refused
\* with the step-order error; current_step and every sub-record stay as they were.
C4_StepOrderRejected ==
    [][\A id \in Created : \A n \in 1..5 :
          (/\ ~submissions[id].is_locked
           /\ submissions[id].current_step < n
           /\ AnsweredSave(id, n))
          => /\ response'.status = HTTP_400_BAD_REQUEST
             /\ response'.error = "step_order"
             /\ UNCHANGED tables]_vars

\* Step 3 attempted right after step 1: refused, no file row stored.
C4_Witness ==
    /\ 1 \in Created
    /\ submissions[1].current_step = 2
    /\ response.op = "save_step" /\ response.id = 1 /\ response.step = 3
    /\ response.error = "step_order"
    /\ step3[1] = <<>>

\* C5: across any sequence of requests current_step never decreases and never
\* jumps: every step leaves it as it was or one higher.
C5_StepMonotone ==
    [][\A id \in Created :
          \/ submissions'[id].current_step = submissions[id].current_step
          \/ submissions'[id].current_step = submissions[id].current_step + 1]_vars

\* C6: a successful save_step(n) issued at current_step = n leaves current_step
\* = n + 1, and current_step always lies in 1..6.
C6_AdvanceByOne ==
    /\ [](\A id \in Created : submissions[id].current_step \in 1..FINAL_STEP)
    /\ [][\A id \in Created : \A n \in 1..5 :
             (/\ submissions[id].current_step = n
              /\ AnsweredSave(id, n)
              /\ response'.success)
             => submissions'[id].current_step = n + 1]_vars

\* Step 2 saved at current_step = 2: the submission is now at step 3.
C6_Witness ==
    /\ 1 \in Created
    /\ response.op = "save_step" /\ response.id = 1 /\ response.step = 2
    /\ response.success
    /\ submissions[1].current_step = 3
    /\ 1 \in DOMAIN step2
    /\ step2[1] = GoodStep2

\* The reviewers of the stored SubmissionStep4 rows, in order.
StoredReviewers(rows) == [i \in DOMAIN rows |-> rows[i].reviewer]

\* C7: a successful re-save of step n stores exactly the new payload; for steps
\* 3 and 4 the stored collection is the submitted list, not the old rows plus
\* the new ones.  (A step-1 payload is taken with all three flags present.)
C7_ResaveOverwrites ==
    [][/\ \A d \in Step1Inputs :
              (Step1Request(1, d) /\ response'.success /\ DOMAIN d = Step1Fields)
              => step1'[1] = d
       /\ \A d \in Step2Inputs :
              (Step2Request(1, d) /\ response'.success) => step2'[1] = d
       /\ \A d \in Step3Inputs :
              (Step3Request(1, d) /\ response'.success) => step3'[1] = d
       /\ \A d \in Step4Inputs :
              (Step4Request(1, d) /\ response'.success) => StoredReviewers(step4'[1]) = d
       /\ \A d \in Step5Inputs :
              (Step5Request(1, d) /\ response'.success) => step5'[1] = d]_vars

\* C8: finalize succeeds exactly when current_step = 6 and the submission is
\* unlocked, and then sets status SUBMITTED and locked; below step 6 it is
\* refused (premises not met), on a locked submission it is refused (already
\* locked), and a refusal changes nothing.
C8_Finalize ==
    [][\A id \in Created :
          AnsweredFinalize(id) =>
             /\ response'.success <=>
                    (submissions[id].current_step = FINAL_STEP /\ ~submissions[id].is_locked)
             /\ response'.success =>
                    /\ submissions'[id].status = "SUBMITTED"
                    /\ submissions'[id].is_locked
                    /\ submissions'[id].current_step = submissions[id].current_step
                    /\ UNCHANGED <<step1, step2, step3, step4, step5>>
             /\ submissions[id].is_locked =>
                    /\ response'.status = HTTP_403_FORBIDDEN
                    /\ response'.error = "locked"
                    /\ UNCHANGED tables
             /\ (~submissions[id].is_locked /\ submissions[id].current_step < FINAL_STEP) =>
                    /\ response'.status = HTTP_400_BAD_REQUEST
                    /\ response'.error = "step_order"
                    /\ UNCHANGED tables]_vars

\* A finalize that has just succeeded.
C8_Witness ==
    /\ 1 \in Created
    /\ response.op = "finalize" /\ response.id = 1 /\ response.success
    /\ submissions[1].is_locked
    /\ submissions[1].status = "SUBMITTED"
    /\ submissions[1].submitted_at = "now"

\* C9: the lock is irreversible under every interleaving of concurrent
\* save_step and finalize requests: a locked, SUBMITTED submission stays so.
C9_LockIrreversible ==
    [][\A id \in Created :
          submissions[id].is_locked =>
             /\ submissions'[id].is_locked
             /\ submissions'[id].status = "SUBMITTED"]_vars

\* C10: the order check reads the loaded object and the write is not atomic
\* with it: a save_step(n) whose loaded object is unlocked with current_step >= n
\* succeeds and writes that object back with current_step = n + 1, whatever
\* has been committed since it was loaded; so a committed advance can be lost.
C10_StaleWriteBack ==
    [][\A w \in Workers :
          (/\ inflight[w].pc = "loaded"
           /\ inflight'[w].pc = "idle"
           /\ inflight[w].step \in 1..5
           /\ ~inflight[w].sub.is_locked
           /\ inflight[w].sub.current_step >= inflight[w].step)
          => /\ response'.success
             /\ submissions'[inflight[w].id] =
                    [inflight[w].sub EXCEPT !.current_step = inflight[w].step + 1]]_vars

\* Two requests passed the order check on the same submission and the later
\* write put current_step below the value the other had committed.
C10_Witness ==
    /\ lost_update
    /\ response.op = "save_step" /\ response.success
    /\ \A w \in Workers : inflight[w].pc = "idle"

C12_RejectedNoMutation ==
    [][\A id \in Created : \A n \in 1..5 :
          (AnsweredSave(id, n) /\ response'.error = "validation")
          => UNCHANGED tables]_vars

\* C13: save_step(1) succeeds only on a payload that carries all three
\* agreement flags as true, and whenever current_step >= 2 the stored step-1
\* record has all three flags true.
C13_AgreementsRequired ==
    /\ [](\A id \in Created :
             submissions[id].current_step >= 2
             => \A f \in Step1Fields : step1[id][f])
    /\ [][\A d \in Step1Inputs :
             (Step1Request(1, d) /\ response'.success)
             => (DOMAIN d = Step1Fields /\ \A f \in Step1Fields : d[f])]_vars

(***************************************************************************)
(* The path to SUBMITTED.                                                  *)
(***************************************************************************)
\* C14: the first successes of the steps of a submission occur in the order
\* 1, 2, 3, 4, 5, finalize, and a SUBMITTED submission has had a successful
\* save of each of steps 1..5 before its successful finalize.
C14_OrderedPath ==
    \A id \in Created :
        /\ \A i \in DOMAIN History(id) : History(id)[i] = i
        /\ submissions[id].status = "SUBMITTED" => Len(History(id)) = FINAL_STEP

\* A submission finalized after its five steps.
C14_Witness ==
    /\ 1 \in Created
    /\ submissions[1].status = "SUBMITTED"
    /\ History(1) = <<1, 2, 3, 4, 5, FINAL_STEP>>
    /\ response.op = "finalize" /\ response.success

(***************************************************************************)
(* Email pipeline.                                                         *)
(***************************************************************************)
\* The EmailLog rows of the given type for the given submission.
LogsOf(email_type, submission_id) ==
    {i \in DOMAIN email_log :
        /\ email_log[i].email_type = email_type
        /\ email_log[i].submission_id = submission_id}

\* C15: every successful finalize triggers the email pipeline: once a
\* submission is SUBMITTED, a submission-confirmation send and an
\* admin-notification send have been attempted for it (a log row of each type
\* exists for its identifier).
C15_FinalizeSendsEmails ==
    \A id \in Created :
        submissions[id].status = "SUBMITTED"
        => /\ LogsOf("SUBMISSION_CONFIRMATION", id) # {}
           /\ LogsOf("ADMIN_NOTIFICATION", id) # {}

\* The sender's template resolves and references a variable that its context lacks.
LacksVariable(sender) ==
    /\ Cardinality(ActiveTemplates(template_type(sender))) = 1
    /\ \E t \in ActiveTemplates(template_type(sender)) :
           MissingVariables(t, context(sender)) # {}

\* C16: a send whose context lacks a variable that the resolved template
\* references does not raise: it returns a log row with status FAILED whose
\* failure reason names the missing variable, and the transport is not
\* invoked for it.
C16_MissingVariableFails ==
    [][\A w \in Workers, sender \in Senders, n \in SubmissionNumbers :
          (Sender(w, sender, n) /\ LacksVariable(sender))
          => /\ email_result'.outcome = "returned"
             /\ email_result'.log \in DOMAIN email_log'
             /\ email_log'[email_result'.log].status = "FAILED"
             /\ \E t \in ActiveTemplates(template_type(sender)) :
                    \E x \in MissingVariables(t, context(sender)) :
                        \E k \in DOMAIN email_log'[email_result'.log].failed_reason :
                            email_log'[email_result'.log].failed_reason[k] = x
             /\ transport'[email_result'.log] = 0]_vars

\* C17: an exception raised by the transport during send_email is caught: the
\* call returns the log row, whose status is FAILED and whose failure reason
\* is not empty and carries the description of the exception.
C17_TransportExceptionCaught ==
    [][\A w \in Workers, delivery \in Deliveries :
          (Deliver(w, delivery) /\ delivery.raises # "none")
          => /\ email_result'.outcome = "returned"
             /\ email_result'.log = inflight[w].log
             /\ email_log'[inflight[w].log].status = "FAILED"
             /\ NonEmpty(email_log'[inflight[w].log].failed_reason)
             /\ email_log'[inflight[w].log].failed_reason[2] = delivery.str]_vars

\* A send that returned a FAILED row after an exception with an empty description.
C17_Witness ==
    /\ email_result.outcome = "returned"
    /\ email_result.log \in DOMAIN email_log
    /\ email_log[email_result.log].status = "FAILED"
    /\ email_log[email_result.log].failed_reason = <<"Unexpected error: ", "">>
    /\ transport[email_result.log] = 1

\* The processes whose send_email call is between the creation of row i and
\* the transport call.
Sending(i) == {w \in Workers : inflight[w].pc = "pending" /\ inflight[w].log = i}

\* C18: a send attempt creates exactly one log row, in status PENDING; when
\* send_email returns, that row is SENT with sent_at set (the transport
\* returned) or FAILED (the transport raised); a row is PENDING only while its
\* send is in progress, and the transport is invoked at most once per send.
C18_LogLifecycle ==
    /\ [](\A i \in DOMAIN email_log :
             /\ transport[i] <= 1
             /\ (email_log[i].status = "PENDING") <=> (Sending(i) # {})
             /\ Cardinality(Sending(i)) <= 1
             /\ email_log[i].status = "SENT"
                    => (email_log[i].sent_at # "null" /\ transport[i] = 1))
    /\ [][\A w \in Workers :
             /\ (inflight[w].pc = "idle" /\ inflight'[w].pc = "pending")
                    => /\ Len(email_log') = Len(email_log) + 1
                       /\ inflight'[w].log = Len(email_log')
                       /\ email_log'[Len(email_log')].status = "PENDING"
                       /\ transport'[Len(email_log')] = 0
                       /\ \A i \in DOMAIN email_log : email_log'[i] = email_log[i]
             /\ (inflight[w].pc = "pending" /\ inflight'[w].pc = "idle")
                    => /\ Len(email_log') = Len(email_log)
                       /\ email_result' = Returned(inflight[w].op, inflight[w].log, 0)
                       /\ email_log'[inflight[w].log].status \in {"SENT", "FAILED"}
                       /\ transport'[inflight[w].log] = 1
                       /\ \A delivery \in Deliveries :
                              Deliver(w, delivery)
                              => (email_log'[inflight[w].log].status = "SENT")
                                     <=> (delivery.raises = "none")]_vars

\* A completed send whose row is SENT.
C18_Witness ==
    /\ email_result.outcome = "returned"
    /\ email_result.log \in DOMAIN email_log
    /\ email_log[email_result.log].status = "SENT"
    /\ email_log[email_result.log].sent_at = "now"
    /\ transport[email_result.log] = 1
    /\ \A w \in Workers : inflight[w].pc = "idle"

\* C19: with no active template of the requested type, each convenience
\* sender raises to its caller, writes no log row and does not invoke the
\* transport.
C19_NoTemplateRaises ==
    [][\A w \in Workers, sender \in Senders, n \in SubmissionNumbers :
          (Sender(w, sender, n) /\ ActiveTemplates(template_type(sender)) = {})
          => /\ email_result'.outcome = "raised"
             /\ email_result'.op = sender
             /\ email_result'.exception = "ValueError"
             /\ UNCHANGED <<email_log, transport, inflight>>]_vars

\* send_contact_reply has raised for want of a template; the log is empty.
C19_Witness ==
    /\ ActiveTemplates("CONTACT_REPLY") = {}
    /\ email_result = Raised("send_contact_reply", "ValueError",
                             <<"CONTACT_REPLY", " template not found">>)
    /\ email_log = <<>>
    /\ transport = <<>>

(***************************************************************************)
(* Retry bookkeeping.                                                      *)
(***************************************************************************)
\* The rows that the retry run of process w has loaded and not yet handled.
Queued(w) ==
    IF inflight[w].pc = "retrying"
    THEN {inflight[w].failed_emails[k].log : k \in DOMAIN inflight[w].failed_emails}
    ELSE {}

\* C20: every log row has 0 <= retry_count <= 5, for any sends and retry runs
\* with any max_retries, overlapping runs included; a row with retry_count 5
\* is never selected by a retry run and keeps retry_count 5; a retry run on a
\* row loaded with retry_count 4 leaves it at 5 and no longer selectable.
C20_RetryCountBounded ==
    /\ [](\A i \in DOMAIN email_log : email_log[i].retry_count \in 0..max_retry_count)
    /\ [][\A i \in DOMAIN email_log :
             email_log[i].retry_count = max_retry_count
             => /\ email_log'[i].retry_count = max_retry_count
                /\ \A w \in Workers : i \in Queued(w)' => i \in Queued(w)]_vars
    /\ [][\A w \in Workers :
             (/\ RetryStep(w)
              /\ Head(inflight[w].failed_emails).retry_count = max_retry_count - 1
              /\ inflight[w].max_retries >= max_retry_count)
             => LET i == Head(inflight[w].failed_emails).log IN
                /\ email_log'[i].retry_count = max_retry_count
                /\ \A k \in DOMAIN get_failed_emails' : get_failed_emails'[k].log # i]_vars

\* A retry run has taken the oldest row from retry_count 4 to 5 and returned.
C20_Witness ==
    /\ email_log # <<>>
    /\ email_log[1].retry_count = max_retry_count
    /\ email_log[1].status = "RETRYING"
    /\ email_result = Returned("retry_failed_emails", 0, 1)
    /\ \A w \in Workers : inflight[w].pc = "idle"

(***************************************************************************)
(* Status codes, validation boundaries and sub-records.                    *)
(***************************************************************************)
\* C24: a save_step, finalize or get request that names an unknown submission
\* id is answered 404, a lock violation is answered 403, and a validation or
\* step-order failure is answered 400.
C24_UnknownIdIs404 ==
    [][\A id \in RequestIds :
          /\ (id \notin Created /\ response'.id = id
                /\ response'.op \in {"save_step", "finalize", "get"})
             => response'.status = HTTP_404_NOT_FOUND
          /\ (id \in Created /\ response'.id = id /\ response'.error = "locked")
             => response'.status = HTTP_403_FORBIDDEN
          /\ (id \in Created /\ response'.id = id
                /\ response'.error \in {"validation", "step_order"})
             => response'.status = HTTP_400_BAD_REQUEST]_vars

\* The number of words of the abstract of a step-2 payload, and the number of
\* entries of a keyword list that are not blank.
WordsOf(data) == data.abstract.words

NonBlank(entries) == Cardinality({k \in DOMAIN entries : strip(entries[k]) # ""})

C26_LazySubRecords ==
    \A id \in Created :
        /\ (id \in DOMAIN step1 /\ step1[id] # <<>>)
           => \E i \in DOMAIN History(id) : History(id)[i] = 1
        /\ id \in DOMAIN step2 => \E i \in DOMAIN History(id) : History(id)[i] = 2
        /\ (id \in DOMAIN step3 /\ step3[id] # <<>>)
           => \E i \in DOMAIN History(id) : History(id)[i] = 3
        /\ (id \in DOMAIN step4 /\ step4[id] # <<>>)
           => \E i \in DOMAIN History(id) : History(id)[i] = 4
        /\ id \in DOMAIN step5 => \E i \in DOMAIN History(id) : History(id)[i] = 5

\* C27: a submission owns at most two reviewer entries in every reachable
\* state, and a save_step(4) request with no reviewer or more than two is
\* rejected without changing any stored record.
C27_AtMostTwoReviewers ==
    /\ [](\A id \in Created : Len(step4[id]) <= max_reviewers)
    /\ [][\A d \in Step4Inputs :
             (/\ 1 \in Created
              /\ Step4Request(1, d)
              /\ (Len(d) = 0 \/ Len(d) > max_reviewers))
             => (~response'.success /\ UNCHANGED tables)]_vars

(***************************************************************************)
(* Template resolution with more than one active template.                 *)
(***************************************************************************)
\* C28: when two or more active templates exist for an email type, a send of
\* that type resolves to one of them and proceeds to the creation of its log
\* row; it does not raise.
C28_DuplicateTemplateProceeds ==
    [][\A w \in Workers : \A sender \in Senders : \A n \in SubmissionNumbers :
          (/\ Cardinality(ActiveTemplates(template_type(sender))) > 1
           /\ Cardinality(DOMAIN transport) < MaxEmails
           /\ Sender(w, sender, n))
          => /\ inflight'[w].pc = "pending"
             /\ Len(email_log') = Len(email_log) + 1
             /\ email_log'[Len(email_log')].email_type = template_type(sender)]_vars

(***************************************************************************)
(* The retry driver.                                                       *)
(***************************************************************************)
\* The rows that a run holding queue q with argument max_retries still has to
\* process: those loaded with a retry_count below max_retries.
ToProcess(q, max_retries) ==
    LET Below(e) == e.retry_count < max_retries IN SelectSeq(q, Below)

\* The step starts a retry run of w with max_retries, and the rows it is
\* going to process are `eligible`, oldest first.
RunProcesses(w, max_retries, eligible) ==
    IF inflight'[w].pc = "retrying"
    THEN /\ ToProcess(inflight'[w].failed_emails, max_retries) = eligible
         /\ inflight'[w].max_retries = max_retries
         /\ inflight'[w].retried_count = 0
         /\ email_log' = email_log
    ELSE /\ eligible = <<>>
         /\ email_result' = Returned("retry_failed_emails", 0, 0)
         /\ email_log' = email_log

\* C21 as stated: a retry run processes exactly the rows that are FAILED with
\* retry_count < max_retries when it is called.
C21_Original ==
    [][\A w \in Workers : \A m \in MaxRetriesInputs :
          RetryStart(w, m)
          => RunProcesses(w, m, Loaded({i \in DOMAIN email_log :
                                           /\ email_log[i].status = "FAILED"
                                           /\ email_log[i].retry_count < m}))]_vars

\* C21: retry_failed_emails(max_retries) processes exactly the rows that are
\* FAILED with retry_count below both max_retries and 5 when it is called,
\* oldest first; it applies increment_retry once to each, changes no other
\* row, and returns the number of rows processed.
C21_RetryProcessesEligible ==
    /\ [][\A w \in Workers : \A m \in MaxRetriesInputs :
             RetryStart(w, m)
             => RunProcesses(w, m, Loaded({i \in DOMAIN email_log :
                                              /\ email_log[i].status = "FAILED"
                                              /\ email_log[i].retry_count < m
                                              /\ email_log[i].retry_count < max_retry_count}))]_vars
    /\ [][\A w \in Workers :
             RetryStep(w)
             => LET r == inflight[w]
                    q == r.failed_emails
                    todo == ToProcess(q, r.max_retries)
                    processed == todo # <<>> /\ Head(todo) = Head(q)
                    count == IF processed THEN r.retried_count + 1 ELSE r.retried_count
                IN  /\ \A k \in 2..Len(q) : q[k].log > Head(q).log
                    /\ \A i \in DOMAIN email_log :
                          IF processed /\ i = Head(q).log
                          THEN /\ email_log'[i].status = "RETRYING"
                               /\ email_log'[i].retry_count = Head(q).retry_count + 1
                          ELSE email_log'[i] = email_log[i]
                    /\ DOMAIN email_log' = DOMAIN email_log
                    /\ IF inflight'[w].pc = "retrying"
                       THEN /\ inflight'[w].failed_emails = Tail(q)
                            /\ inflight'[w].retried_count = count
                            /\ email_result' = email_result
                       ELSE /\ Tail(q) = <<>>
                            /\ email_result' = Returned("retry_failed_emails", 0, count)]_vars

\* A run with max_retries 2 over a log of two FAILED rows, the older at
\* retry_count 4 and the newer at 0, has skipped the older one, processed the
\* newer one and returned 1.
C21_Witness ==
    /\ Len(email_log) = 2
    /\ email_log[1].status = "FAILED"
    /\ email_log[1].retry_count = 4
    /\ email_log[2].status = "RETRYING"
    /\ email_log[2].retry_count = 1
    /\ email_result = Returned("retry_failed_emails", 0, 1)
    /\ \A w \in Workers : inflight[w].pc = "idle"

\* C22: increment_retry sets the status of the row to RETRYING and its
\* retry_count to one more than the value the run loaded (one more than the
\* stored value whenever the row was not changed since it was loaded), and
\* touches no other field; a step of a retry run never invokes the transport,
\* never creates a log row and never moves a row to SENT or FAILED.
C22_RetryIsBookkeeping ==
    /\ [][\A w \in Workers :
             (RetryStep(w) \/ \E m \in MaxRetriesInputs : RetryStart(w, m))
             => /\ transport' = transport
                /\ DOMAIN email_log' = DOMAIN email_log
                /\ \A i \in DOMAIN email_log :
                      email_log'[i].status \in {"SENT", "FAILED", "PENDING"}
                      => email_log'[i] = email_log[i]]_vars
    /\ [][\A w \in Workers :
             (/\ RetryStep(w)
              /\ Head(inflight[w].failed_emails).retry_count < inflight[w].max_retries)
             => LET email == Head(inflight[w].failed_emails)
                    before == email_log[email.log]
                    after == email_log'[email.log]
                IN  /\ after.status = "RETRYING"
                    /\ after.retry_count = email.retry_count + 1
                    /\ before.retry_count = email.retry_count
                       => after.retry_count = before.retry_count + 1
                    /\ after = [before EXCEPT !.status = after.status,
                                              !.retry_count = after.retry_count]]_vars

\* A send failed after one call of the transport, and a retry run has since
\* marked its row RETRYING with retry_count 1: the transport was not called again.
C22_Witness ==
    \E i \in DOMAIN transport :
        /\ email_log[i].status = "RETRYING"
        /\ email_log[i].retry_count = 1
        /\ email_log[i].sent_at = "null"
        /\ transport[i] = 1
        /\ email_result.op = "retry_failed_emails"
        /\ email_result.count >= 1

(***************************************************************************)
(* Statistics.                                                             *)
(***************************************************************************)
\* C23: get_email_statistics, run with no other call in between, reports
\* total_sent, total_failed and total_pending equal to the numbers of rows
\* that are SENT, FAILED and PENDING, and failure_rate equal to
\* failed / (sent + failed) * 100 over those rows, or 0.0 when there is none.
C23_FailureRate ==
    [][get_email_statistics
       => LET sent == Cardinality({i \in DOMAIN email_log : email_log[i].status = "SENT"})
              failed == Cardinality({i \in DOMAIN email_log : email_log[i].status = "FAILED"})
              pending == Cardinality({i \in DOMAIN email_log : email_log[i].status = "PENDING"})
              stats == email_result'.stats
          IN  /\ stats.total_sent = sent
              /\ stats.total_failed = failed
              /\ stats.total_pending = pending
              /\ stats.failure_rate.den > 0
              /\ IF sent + failed = 0
                 THEN stats.failure_rate = ZeroRate
                 ELSE stats.failure_rate.num * (sent + failed)
                         = failed * 100 * stats.failure_rate.den]_vars

\* Statistics over a log with one SENT row, one FAILED row and nothing else
\* counted: the failure rate is 50.
C23_Witness ==
    /\ email_result.op = "get_email_statistics"
    /\ email_result.stats.total_sent = 1
    /\ email_result.stats.total_failed = 1
    /\ email_result.stats.failure_rate.num = 50 * email_result.stats.failure_rate.den
    /\ \E i \in DOMAIN email_log : email_log[i].status \in {"RETRYING", "PENDING"}

\* C29: failure_rate is between 0 and 100 in every result of
\* get_email_statistics, also when sends complete between its queries.
C29_RateWithinBounds ==
    email_result.op = "get_email_statistics"
    => /\ email_result.stats.failure_rate.den > 0
       /\ email_result.stats.failure_rate.num >= 0
       /\ email_result.stats.failure_rate.num <= 100 * email_result.stats.failure_rate.den

(***************************************************************************)
(* Retry runs made one after the other.                                    *)
(***************************************************************************)
\* C30: a retry run made right after another retry run, with no send
\* completed in between, selects no row, returns 0 and changes no row; no
\* row carries a retry_count above 1, and a row that is RETRYING stays as it
\* is: it never becomes SENT.
C30_RetryIdempotent ==
    /\ [](\A i \in DOMAIN email_log : email_log[i].retry_count <= 1)
    /\ [][\A i \in DOMAIN email_log :
             email_log[i].status = "RETRYING" => email_log'[i] = email_log[i]]_vars
    /\ [][\A m \in MaxRetriesInputs :
             (retry_failed_emails(m) /\ email_result.op = "retry_failed_emails")
             => /\ get_failed_emails = <<>>
                /\ email_result' = Returned("retry_failed_emails", 0, 0)
                /\ email_log' = email_log]_vars

\* The row of a send of the behaviour failed and was marked RETRYING by a
\* retry run, and the last call completed is a retry run that returned 0.
C30_Witness ==
    /\ \E i \in DOMAIN transport :
          /\ email_log[i].status = "RETRYING"
          /\ email_log[i].retry_count = 1
    /\ email_result = Returned("retry_failed_emails", 0, 0)
    /\ get_failed_emails = <<>>

====
